---- MODULE Spec2Model ----
(***************************************************************************)
(* Model of receipt-processor.go: the point calculation (calculatePoints), *)
(* the in-memory receiptStore and the two HTTP handlers that net/http runs *)
(* in one goroutine per request.                                           *)
(*                                                                         *)
(* Strings are sequences of code points; a code point is written as a      *)
(* one-character string ("a", "7", ".") or, outside ASCII, by its name     *)
(* ("U+00E9").  Decimal values of strconv.ParseFloat are kept exactly, as  *)
(* mant / 10^scale: for the inputs used here (a few significant digits)    *)
(* the float64 comparisons of the code (== Trunc, Mod 0.25 == 0,           *)
(* Ceil(price * 0.2)) give the same result as exact arithmetic.            *)
(***************************************************************************)
EXTENDS Integers, Sequences, FiniteSets, TLC

VARIABLES
    receiptStore,   \* the map of line 35: identifier -> ProcessedReceipt
    handler,        \* one record per request goroutine
    generated,      \* identifiers uuid.New has produced so far
    responses,      \* identifiers returned with 200, with the receipt decoded for them
    crashed,        \* the runtime has thrown a fatal error (process ended)
    receipt,        \* argument of the calculatePoints call being stepped through
    totalPoints,    \* local variable totalPoints of that call
    pc              \* position inside that call

vars == <<receiptStore, handler, generated, responses, crashed, receipt, totalPoints, pc>>

serverVars == <<receiptStore, handler, generated, responses, crashed>>
scorerVars == <<receipt, totalPoints, pc>>

----------------------------------------------------------------------------
(* Bounds *)

MaxRequests == 3     \* requests served in one run
MaxItems == 2        \* items per generated receipt
NumUUIDs == 4        \* identifiers uuid.New can draw from
MaxHour == 24        \* purchase times are generated for hours 0..MaxHour
MaxMinute == 60      \* and minutes 0..MaxMinute

----------------------------------------------------------------------------
(* Characters and strings *)

DigitChars == {"0", "1", "2", "3", "4", "5", "6", "7", "8", "9"}

DigitValue ==
    [c \in DigitChars |->
        CASE c = "0" -> 0 [] c = "1" -> 1 [] c = "2" -> 2 [] c = "3" -> 3
          [] c = "4" -> 4 [] c = "5" -> 5 [] c = "6" -> 6 [] c = "7" -> 7
          [] c = "8" -> 8 [] c = "9" -> 9]

DigitChar(n) == CHOOSE c \in DigitChars : DigitValue[c] = n

AsciiLetters ==
    {"a", "b", "c", "d", "e", "g", "h", "i", "l", "m", "n", "o", "r", "s", "t",
     "u", "w", "z", "f", "k", "x", "C", "D", "E", "G", "K", "M", "P", "T"}

\* unicode.IsLetter outside ASCII: U+00E9 (e acute); unicode.IsDigit outside
\* ASCII: U+0663 (Arabic-Indic digit three).
isLetter(c) == c \in AsciiLetters \cup {"U+00E9"}
isDigit(c) == c \in DigitChars \cup {"U+0663"}

\* unicode.IsSpace, restricted to the characters used here.
isSpace(c) == c \in {" ", "\t"}

\* Bytes of the UTF-8 encoding of a code point: len() of a Go string counts bytes.
Utf8Len(c) == IF c \in {"U+00E9", "U+0663"} THEN 2 ELSE 1

RECURSIVE byteLen(_)
byteLen(s) == IF s = <<>> THEN 0 ELSE Utf8Len(Head(s)) + byteLen(Tail(s))

RECURSIVE TrimLeft(_)
TrimLeft(s) == IF s # <<>> /\ isSpace(Head(s)) THEN TrimLeft(Tail(s)) ELSE s

RECURSIVE TrimRight(_)
TrimRight(s) ==
    IF s # <<>> /\ isSpace(s[Len(s)]) THEN TrimRight(SubSeq(s, 1, Len(s) - 1)) ELSE s

TrimSpace(s) == TrimRight(TrimLeft(s))

RECURSIVE Pow10(_)
Pow10(n) == IF n = 0 THEN 1 ELSE 10 * Pow10(n - 1)

\* Value of a sequence of decimal digits.
RECURSIVE DecimalValue(_)
DecimalValue(ds) ==
    IF ds = <<>> THEN 0
    ELSE 10 * DecimalValue(SubSeq(ds, 1, Len(ds) - 1)) + DigitValue[ds[Len(ds)]]

----------------------------------------------------------------------------
(* strconv.ParseFloat, for strings over signs, digits, "." and characters  *)
(* that no float syntax uses: an optional sign, then digits with at most   *)
(* one point and at least one digit; anything else is a syntax error.      *)

IsDigitChar(c) == c \in DigitChars

ParseFloat(s) ==
    LET n == Len(s)
        signed == n > 0 /\ s[1] \in {"+", "-"}
        body == IF signed THEN SubSeq(s, 2, n) ELSE s
        dots == {i \in 1..Len(body) : body[i] = "."}
        digs == SelectSeq(body, IsDigitChar)
        ok == /\ \A i \in 1..Len(body) : body[i] \in DigitChars \cup {"."}
              /\ Cardinality(dots) <= 1
              /\ digs # <<>>
        scale == IF dots = {} THEN 0 ELSE Len(body) - (CHOOSE d \in dots : TRUE)
        mag == DecimalValue(digs)
    IN  IF ok
        THEN [err |-> FALSE, mant |-> IF n > 0 /\ s[1] = "-" THEN -mag ELSE mag,
              scale |-> scale]
        ELSE [err |-> TRUE, mant |-> 0, scale |-> 0]

\* total == math.Trunc(total)
IsWhole(x) == x.mant % Pow10(x.scale) = 0

\* math.Mod(total, 0.25) == 0
IsQuarterMultiple(x) == (4 * x.mant) % Pow10(x.scale) = 0

\* CeilFifth with a fault: rounds down instead of up.
FloorFifth(x) == x.mant \div (5 * Pow10(x.scale))

\* int(math.Ceil(price * 0.2)): price * 0.2 = mant / (5 * 10^scale)
CeilFifth(x) == -((-x.mant) \div (5 * Pow10(x.scale)))

----------------------------------------------------------------------------
(* time.Parse *)

\* getnum of package time: one or two leading digits, exactly two when fixed.
getnum(s, fixed) ==
    IF ~(Len(s) >= 1 /\ s[1] \in DigitChars)
    THEN [err |-> TRUE, n |-> 0, rest |-> s]
    ELSE IF ~(Len(s) >= 2 /\ s[2] \in DigitChars)
    THEN IF fixed
         THEN [err |-> TRUE, n |-> 0, rest |-> s]
         ELSE [err |-> FALSE, n |-> DigitValue[s[1]], rest |-> Tail(s)]
    ELSE [err |-> FALSE, n |-> DigitValue[s[1]] * 10 + DigitValue[s[2]],
          rest |-> Tail(Tail(s))]

isLeap(year) == year % 4 = 0 /\ (year % 100 # 0 \/ year % 400 = 0)

daysIn(month, year) ==
    IF month = 2 THEN (IF isLeap(year) THEN 29 ELSE 28)
    ELSE IF month \in {4, 6, 9, 11} THEN 30 ELSE 31

\* time.Parse("2006-01-02", s): four-digit year, two-digit month and day,
\* month in 1..12, day within the month, nothing after.
ParseDate(s) ==
    LET yearOk == Len(s) >= 4 /\ \A i \in 1..4 : s[i] \in DigitChars
        year == DecimalValue(SubSeq(s, 1, 4))
        r1 == SubSeq(s, 5, Len(s))
        m == IF yearOk /\ r1 # <<>> /\ Head(r1) = "-"
             THEN getnum(Tail(r1), TRUE) ELSE [err |-> TRUE, n |-> 0, rest |-> <<>>]
        d == IF ~m.err /\ m.rest # <<>> /\ Head(m.rest) = "-"
             THEN getnum(Tail(m.rest), TRUE) ELSE [err |-> TRUE, n |-> 0, rest |-> <<>>]
        ok == /\ ~d.err
              /\ d.rest = <<>>
              /\ m.n >= 1 /\ m.n <= 12
              /\ d.n >= 1 /\ d.n <= daysIn(m.n, year)
    IN  IF ok THEN [err |-> FALSE, day |-> d.n] ELSE [err |-> TRUE, day |-> 0]

\* time.Parse("15:04", s): hour of one or two digits below 24, ":", a
\* two-digit minute below 60, nothing after.
ParseClock(s) ==
    LET h == getnum(s, FALSE)
        m == IF ~h.err /\ h.n < 24 /\ h.rest # <<>> /\ Head(h.rest) = ":"
             THEN getnum(Tail(h.rest), TRUE) ELSE [err |-> TRUE, n |-> 0, rest |-> <<>>]
        ok == ~m.err /\ m.n < 60 /\ m.rest = <<>>
    IN  IF ok THEN [err |-> FALSE, hour |-> h.n, minute |-> m.n]
        ELSE [err |-> TRUE, hour |-> 0, minute |-> 0]

----------------------------------------------------------------------------
(* calculatePoints, rule by rule *)

\* One point for every letter or digit of the retailer name.
RECURSIVE retailerPoints(_)
retailerPoints(name) ==
    IF name = <<>> THEN 0
    ELSE (IF isLetter(Head(name)) \/ isDigit(Head(name)) THEN 1 ELSE 0)
         + retailerPoints(Tail(name))

\* 50 for a round total, 25 for a multiple of 0.25; nothing when it does not parse.
totalRulePoints(total) ==
    LET t == ParseFloat(total)
    IN  IF t.err THEN 0
        ELSE (IF IsWhole(t) THEN 50 ELSE 0) + (IF IsQuarterMultiple(t) THEN 25 ELSE 0)

\* pairPoints with a fault: 5 points for every item.
pairPointsPerItem(items) == Len(items) * 5

\* 5 points for every two items.
pairPoints(items) == (Len(items) \div 2) * 5

\* ceil(price * 0.2) when the trimmed description's length is a multiple of 3.
descriptionPoints(item) ==
    LET description == TrimSpace(item.ShortDescription)
        price == ParseFloat(item.Price)
    IN  IF byteLen(description) % 3 = 0 /\ ~price.err THEN CeilFifth(price) ELSE 0

RECURSIVE itemPoints(_)
itemPoints(items) ==
    IF items = <<>> THEN 0
    ELSE descriptionPoints(Head(items)) + itemPoints(Tail(items))

\* 6 points if the day of the purchase date is odd.
datePoints(purchaseDate) ==
    LET d == ParseDate(purchaseDate)
    IN  IF ~d.err /\ d.day % 2 = 1 THEN 6 ELSE 0

\* timePoints with a fault: the window includes 16:00.
timePointsInclusive(purchaseTime) ==
    LET t == ParseClock(purchaseTime)
        totalMinutes == t.hour * 60 + t.minute
    IN  IF ~t.err /\ totalMinutes >= 14 * 60 /\ totalMinutes <= 16 * 60 THEN 10 ELSE 0

\* 10 points if the purchase time is in [14:00, 16:00).
timePoints(purchaseTime) ==
    LET t == ParseClock(purchaseTime)
        totalMinutes == t.hour * 60 + t.minute
    IN  IF ~t.err /\ totalMinutes >= 14 * 60 /\ totalMinutes < 16 * 60 THEN 10 ELSE 0

calculatePoints(r) ==
    retailerPoints(r.Retailer) + totalRulePoints(r.Total) + pairPoints(r.Items)
    + itemPoints(r.Items) + datePoints(r.PurchaseDate) + timePoints(r.PurchaseTime)

----------------------------------------------------------------------------
(* Receipts given to calculatePoints *)

Item(d, p) == [ShortDescription |-> d, Price |-> p]

\* "Target", 2022-01-01, 13:01, 35.35, Mountain Dew 12PK / Emils Cheese Pizza
Fixture ==
    [Retailer |-> <<"T", "a", "r", "g", "e", "t">>,
     PurchaseDate |-> <<"2", "0", "2", "2", "-", "0", "1", "-", "0", "1">>,
     PurchaseTime |-> <<"1", "3", ":", "0", "1">>,
     Total |-> <<"3", "5", ".", "3", "5">>,
     Items |-> <<Item(<<"M", "o", "u", "n", "t", "a", "i", "n", " ", "D", "e", "w", " ",
                        "1", "2", "P", "K">>, <<"6", ".", "4", "9">>),
                 Item(<<"E", "m", "i", "l", "s", " ", "C", "h", "e", "e", "s", "e", " ",
                        "P", "i", "z", "z", "a">>, <<"1", "2", ".", "2", "5">>)>>]

\* A purchase time written the way the submit interface asks for it, HH:MM.
TimeString(hh, mm) ==
    <<DigitChar(hh \div 10), DigitChar(hh % 10), ":",
      DigitChar(mm \div 10), DigitChar(mm % 10)>>

Retailers ==
    {<<>>,
     <<"T", "a", "r", "g", "e", "t">>,
     <<"M", "&", "M", " ", "C", "o", "r", "n", "e", "r", " ", "M", "a", "r", "k", "e", "t">>,
     <<"C", "a", "f", "U+00E9", " ", "U+0663">>}

Totals ==
    {<<"3", "5", ".", "3", "5">>, <<"3", "5", ".", "0", "0">>, <<"9">>,
     <<"0", ".", "7", "5">>, <<"2", ".", "9", "9">>, <<"a", "b", "c">>, <<>>,
     <<"1", ".", "2", ".", "3">>}

Dates ==
    {<<"2", "0", "2", "2", "-", "0", "1", "-", "0", "1">>,
     <<"2", "0", "2", "2", "-", "0", "3", "-", "2", "0">>,
     <<"2", "0", "2", "2", "-", "0", "2", "-", "2", "9">>,
     <<"2", "0", "2", "4", "-", "0", "2", "-", "2", "9">>,
     <<"2", "0", "2", "2", "-", "1", "3", "-", "0", "1">>,
     <<"0", "1", "/", "0", "1", "/", "2", "0", "2", "2">>}

Times ==
    {<<"1", "3", ":", "0", "1">>, <<"1", "4", ":", "3", "3">>, <<"9", ":", "0", "5">>,
     <<"2", "5", ":", "0", "0">>, <<"1", "4", ":", "3">>, <<"2", "p", "m">>}

Descriptions ==
    {<<" ", "a", "b", "c", " ">>, <<"a", "b">>}

Prices ==
    {<<"1", "2", ".", "2", "5">>, <<"5">>, <<"-", "4", ".", "9", "9">>,
     <<"-", "1", "0", "0", ".", "0", "0">>, <<"x">>}

OtherItems ==
    {Item(<<>>, <<"0", ".", "0", "1">>), Item(<<"U+00E9", "a">>, <<"1", "0">>)}

ItemSet == {Item(d, p) : d \in Descriptions, p \in Prices}

SeqsUpTo(S, n) == UNION {[1..k -> S] : k \in 0..n}

ScorerInputs ==
    {Fixture}
    \cup {[Fixture EXCEPT !.PurchaseTime = TimeString(hh, mm)] :
            hh \in 0..MaxHour, mm \in 0..MaxMinute}
    \cup {[Retailer |-> r, PurchaseDate |-> d, PurchaseTime |-> t, Total |-> tot,
           Items |-> Fixture.Items] :
            r \in Retailers, d \in Dates, t \in Times, tot \in Totals}
    \cup {[Retailer |-> <<>>, PurchaseDate |-> d, PurchaseTime |-> Fixture.PurchaseTime,
           Total |-> tot, Items |-> its] :
            d \in {<<"2", "0", "2", "2", "-", "0", "3", "-", "2", "0">>,
                   <<"2", "0", "2", "2", "-", "1", "3", "-", "0", "1">>},
            tot \in {<<"2", ".", "9", "9">>, <<"a", "b", "c">>},
            its \in SeqsUpTo(ItemSet, MaxItems) \cup SeqsUpTo(OtherItems, MaxItems)}

----------------------------------------------------------------------------
(* One call of calculatePoints, statement by statement *)

ScorerIdle == receipt = Fixture /\ totalPoints = 0 /\ pc = "idle"

ScoreRetailer ==
    /\ pc = "retailer"
    /\ totalPoints' = totalPoints + retailerPoints(receipt.Retailer)
    /\ pc' = "total"
    /\ UNCHANGED <<receipt, serverVars>>

ScoreTotal ==
    /\ pc = "total"
    /\ totalPoints' = totalPoints + totalRulePoints(receipt.Total)
    /\ pc' = "pairs"
    /\ UNCHANGED <<receipt, serverVars>>

ScorePairs ==
    /\ pc = "pairs"
    /\ totalPoints' = totalPoints + pairPoints(receipt.Items)
    /\ pc' = "items"
    /\ UNCHANGED <<receipt, serverVars>>

ScoreItems ==
    /\ pc = "items"
    /\ totalPoints' = totalPoints + itemPoints(receipt.Items)
    /\ pc' = "date"
    /\ UNCHANGED <<receipt, serverVars>>

ScoreDate ==
    /\ pc = "date"
    /\ totalPoints' = totalPoints + datePoints(receipt.PurchaseDate)
    /\ pc' = "time"
    /\ UNCHANGED <<receipt, serverVars>>

ScoreTime ==
    /\ pc = "time"
    /\ totalPoints' = totalPoints + timePoints(receipt.PurchaseTime)
    /\ pc' = "return"
    /\ UNCHANGED <<receipt, serverVars>>

----------------------------------------------------------------------------
(* Request bodies and json.Decoder.Decode into a Receipt *)

JString(s) == [k |-> "string", s |-> s]
JNumber == [k |-> "number"]
JNull == [k |-> "null"]
JArray(a) == [k |-> "array", a |-> a]
JObject(o) == [k |-> "object", o |-> o]
NotJSON == [k |-> "invalid"]

ZeroReceipt ==
    [Retailer |-> <<>>, PurchaseDate |-> <<>>, PurchaseTime |-> <<>>, Total |-> <<>>,
     Items |-> <<>>]

\* A string field: an absent key or a null leaves the zero value and is no
\* error; a value of another JSON type is an UnmarshalTypeError.
decodeString(o, key) ==
    IF key \notin DOMAIN o \/ o[key].k = "null" THEN [err |-> FALSE, v |-> <<>>]
    ELSE IF o[key].k = "string" THEN [err |-> FALSE, v |-> o[key].s]
    ELSE [err |-> TRUE, v |-> <<>>]

decodeItem(v) ==
    IF v.k = "null" THEN [err |-> FALSE, v |-> Item(<<>>, <<>>)]
    ELSE IF v.k # "object" THEN [err |-> TRUE, v |-> Item(<<>>, <<>>)]
    ELSE LET d == decodeString(v.o, "shortDescription")
             p == decodeString(v.o, "price")
         IN  [err |-> d.err \/ p.err, v |-> Item(d.v, p.v)]

decodeItems(o) ==
    IF "items" \notin DOMAIN o \/ o["items"].k = "null" THEN [err |-> FALSE, v |-> <<>>]
    ELSE IF o["items"].k # "array" THEN [err |-> TRUE, v |-> <<>>]
    ELSE LET a == o["items"].a
         IN  [err |-> \E i \in 1..Len(a) : decodeItem(a[i]).err,
              v |-> [i \in 1..Len(a) |-> decodeItem(a[i]).v]]

Decode(body) ==
    IF body.k = "invalid" THEN [err |-> TRUE, receipt |-> ZeroReceipt]
    ELSE IF body.k = "null" THEN [err |-> FALSE, receipt |-> ZeroReceipt]
    ELSE IF body.k # "object" THEN [err |-> TRUE, receipt |-> ZeroReceipt]
    ELSE LET retailer == decodeString(body.o, "retailer")
             purchaseDate == decodeString(body.o, "purchaseDate")
             purchaseTime == decodeString(body.o, "purchaseTime")
             total == decodeString(body.o, "total")
             items == decodeItems(body.o)
         IN  [err |-> \/ retailer.err \/ purchaseDate.err \/ purchaseTime.err
                      \/ total.err \/ items.err,
              receipt |-> [Retailer |-> retailer.v, PurchaseDate |-> purchaseDate.v,
                           PurchaseTime |-> purchaseTime.v, Total |-> total.v,
                           Items |-> items.v]]

JItem(it) ==
    JObject([shortDescription |-> JString(it.ShortDescription), price |-> JString(it.Price)])

\* The document a client sends for receipt r with every field present.
Document(r) ==
    JObject([retailer |-> JString(r.Retailer), purchaseDate |-> JString(r.PurchaseDate),
             purchaseTime |-> JString(r.PurchaseTime), total |-> JString(r.Total),
             items |-> JArray([i \in 1..Len(r.Items) |-> JItem(r.Items[i])])])

\* Structurally valid, but the total, one price, the date and the time do not parse.
Unparseable ==
    [Retailer |-> <<"T", "a", "r", "g", "e", "t">>,
     PurchaseDate |-> <<"2", "0", "2", "2", "-", "1", "3", "-", "0", "1">>,
     PurchaseTime |-> <<"2", "p", "m">>,
     Total |-> <<"a", "b", "c">>,
     Items |-> <<Item(<<"a", "b", "c">>, <<"x">>), Item(<<"a", "b", "c">>, <<"5">>)>>]

Bodies ==
    <<Document(Fixture),
      Document(Unparseable),
      JObject([retailer |-> JString(<<"T", "a", "r", "g", "e", "t">>)]),
      JObject([retailer |-> JString(<<"T", "a", "r", "g", "e", "t">>),
               purchaseDate |-> JString(Fixture.PurchaseDate),
               purchaseTime |-> JString(Fixture.PurchaseTime),
               total |-> JString(Fixture.Total),
               items |-> JString(<<"x">>)]),
      JObject([retailer |-> JString(<<"T", "a", "r", "g", "e", "t">>),
               purchaseDate |-> JString(Fixture.PurchaseDate),
               purchaseTime |-> JString(Fixture.PurchaseTime),
               total |-> JNumber,
               items |-> JArray(<<>>)]),
      NotJSON>>

----------------------------------------------------------------------------
(* The handlers.  net/http serves every request in a goroutine of its own. *)
(* A map access is not atomic: it begins and ends, and nothing in the code *)
(* keeps two accesses apart.  An access that overlaps a write is a data    *)
(* race on the map; the model then lets it end in any of the ways the Go   *)
(* runtime can end it: as if it ran alone, with the write lost, with the   *)
(* slot holding the value of the other writer, with a lookup that misses,  *)
(* or with the runtime's fatal error "concurrent map writes".              *)

Requests == 1..MaxRequests
UUIDs == 1..NumUUIDs

IdleHandler ==
    [pc |-> "idle", op |-> "none", body |-> 0, receipt |-> ZeroReceipt, points |-> 0,
     id |-> 0, status |-> 0, result |-> 0, overlap |-> {}, known |-> {}]

Lost == [ID |-> 0, Points |-> 0]

\* Requests are numbered in the order they arrive.
Arrives(h) ==
    /\ ~crashed
    /\ handler[h].pc = "idle"
    /\ h > 1 => handler[h - 1].pc # "idle"

\* uuid.New(): an identifier not generated before.
NewUUID == UUIDs \ generated

\* Handlers that are inside a map access right now.
Writing == {g \in Requests : handler[g].pc = "writing"}
Reading == {g \in Requests : handler[g].pc = "reading"}

\* h begins a map access that overlaps those of the handlers in `others`.
BeginAccess(h, mine, others) ==
    [g \in Requests |->
        IF g = h THEN [mine EXCEPT !.overlap = others]
        ELSE IF g \in others THEN [handler[g] EXCEPT !.overlap = @ \cup {h}]
        ELSE handler[g]]

\* Lines 96-101: the body does not decode; 400 and nothing else.
ProcessReceiptBadRequest(h) ==
    /\ Arrives(h)
    /\ \E i \in 1..Len(Bodies) :
        /\ Decode(Bodies[i]).err
        /\ handler' = [handler EXCEPT ![h] = [@ EXCEPT !.pc = "done", !.op = "process",
                                                       !.body = i, !.status = 400]]
    /\ UNCHANGED <<receiptStore, generated, responses, crashed, scorerVars>>

\* Lines 96-105: decode, calculatePoints, uuid.New, and the map assignment begins.
ProcessReceiptBegin(h) ==
    /\ Arrives(h)
    /\ \E i \in 1..Len(Bodies), id \in NewUUID :
        LET d == Decode(Bodies[i])
        IN  /\ ~d.err
            /\ handler' = BeginAccess(h,
                    [handler[h] EXCEPT !.pc = "writing", !.op = "process", !.body = i,
                                       !.receipt = d.receipt,
                                       !.points = calculatePoints(d.receipt),
                                       !.id = id],
                    Writing \cup Reading)
            /\ generated' = generated \cup {id}
    /\ UNCHANGED <<receiptStore, responses, crashed, scorerVars>>

\* What the assignment of lines 105-108 can leave in the slot of h's key.
WriteOutcomes(h) ==
    {[ID |-> handler[h].id, Points |-> handler[h].points]}
    \cup (IF handler[h].overlap = {} THEN {}
          ELSE {Lost} \cup {[ID |-> handler[g].id, Points |-> handler[g].points] :
                              g \in {x \in handler[h].overlap : handler[x].op = "process"}})

Assign(store, id, rec) ==
    IF rec = Lost THEN store
    ELSE [x \in DOMAIN store \cup {id} |-> IF x = id THEN rec ELSE store[x]]

\* Lines 105-112: the map assignment ends and the identifier is returned.
ProcessReceiptEnd(h) ==
    /\ ~crashed
    /\ handler[h].pc = "writing"
    /\ \E rec \in WriteOutcomes(h) :
        receiptStore' = Assign(receiptStore, handler[h].id, rec)
    /\ handler' = [handler EXCEPT ![h] = [@ EXCEPT !.pc = "done", !.status = 200]]
    /\ responses' = [x \in DOMAIN responses \cup {handler[h].id} |->
                        IF x = handler[h].id THEN handler[h].receipt ELSE responses[x]]
    /\ UNCHANGED <<generated, crashed, scorerVars>>

\* Lines 116-119: the lookup of the requested identifier begins.
GetPointsBegin(h) ==
    /\ Arrives(h)
    /\ \E id \in UUIDs :
        handler' = BeginAccess(h,
                [handler[h] EXCEPT !.pc = "reading", !.op = "get", !.id = id,
                                   !.known = DOMAIN responses],
                Writing)
    /\ UNCHANGED <<receiptStore, generated, responses, crashed, scorerVars>>

NotFound == [exists |-> FALSE, Points |-> 0]

Lookup(store, id) ==
    IF id \in DOMAIN store THEN [exists |-> TRUE, Points |-> store[id].Points]
    ELSE NotFound

ReadOutcomes(h) ==
    {Lookup(receiptStore, handler[h].id)}
    \cup (IF handler[h].overlap = {} THEN {} ELSE {NotFound})

\* Lines 119-127: the lookup ends; 404 when the key is absent, else the points.
GetPointsEnd(h) ==
    /\ ~crashed
    /\ handler[h].pc = "reading"
    /\ \E r \in ReadOutcomes(h) :
        handler' = [handler EXCEPT ![h] =
                        [@ EXCEPT !.pc = "done",
                                  !.status = IF r.exists THEN 200 ELSE 404,
                                  !.result = r.Points]]
    /\ UNCHANGED <<receiptStore, generated, responses, crashed, scorerVars>>

\* The runtime notices the concurrent map access and ends the process.
RuntimeFatal(h) ==
    /\ ~crashed
    /\ handler[h].pc \in {"writing", "reading"}
    /\ handler[h].overlap # {}
    /\ crashed' = TRUE
    /\ UNCHANGED <<receiptStore, handler, generated, responses, scorerVars>>

----------------------------------------------------------------------------
(* Specifications *)

ServerInit ==
    /\ receiptStore = <<>>
    /\ handler = [h \in Requests |-> IdleHandler]
    /\ generated = {}
    /\ responses = <<>>
    /\ crashed = FALSE

Init == ServerInit /\ ScorerIdle

Next ==
    \E h \in Requests :
        \/ ProcessReceiptBadRequest(h)
        \/ ProcessReceiptBegin(h)
        \/ ProcessReceiptEnd(h)
        \/ GetPointsBegin(h)
        \/ GetPointsEnd(h)
        \/ RuntimeFatal(h)

Spec == Init /\ [][Next]_vars

\* calculatePoints alone, on every receipt of ScorerInputs.
ScorerInit ==
    /\ ServerInit
    /\ receipt \in ScorerInputs
    /\ totalPoints = 0
    /\ pc = "retailer"

ScorerNext ==
    \/ ScoreRetailer
    \/ ScoreTotal
    \/ ScorePairs
    \/ ScoreItems
    \/ ScoreDate
    \/ ScoreTime

ScorerSpec == ScorerInit /\ [][ScorerNext]_vars

----------------------------------------------------------------------------
(* Properties *)

Done(h) == handler[h].pc = "done"
Submissions == {h \in Requests : handler[h].op = "process"}
Retrievals == {h \in Requests : handler[h].op = "get"}

\* C1: a retrieval that starts after an identifier was returned succeeds and
\* returns the points calculated from the receipt submitted for it.
C1_RoundTrip ==
    \A h \in Retrievals :
        (Done(h) /\ handler[h].id \in handler[h].known)
            => /\ handler[h].status = 200
               /\ handler[h].result = calculatePoints(responses[handler[h].id])

\* C2: no write to receiptStore overlaps another access to receiptStore.
C2_Serialized ==
    \A g \in Requests, h \in Requests :
        ~(g # h /\ g \in Writing /\ h \in Writing \cup Reading)

\* The Receipt shape of the submit interface: an object with the four
\* string fields and a list of items, each an object with two string fields.
IsString(o, key) == key \in DOMAIN o /\ o[key].k = "string"

HasReceiptShape(body) ==
    /\ body.k = "object"
    /\ \A key \in {"retailer", "purchaseDate", "purchaseTime", "total"} :
            IsString(body.o, key)
    /\ "items" \in DOMAIN body.o
    /\ body.o["items"].k = "array"
    /\ \A i \in 1..Len(body.o["items"].a) :
            /\ body.o["items"].a[i].k = "object"
            /\ IsString(body.o["items"].a[i].o, "shortDescription")
            /\ IsString(body.o["items"].a[i].o, "price")

\* C3: a document that is not of the Receipt shape (a field missing or of the
\* wrong type) is answered with 400, gets no identifier and no store entry.
C3_MalformedRejected ==
    \A h \in Submissions :
        ~HasReceiptShape(Bodies[handler[h].body])
            => /\ handler[h].id = 0
               /\ Done(h) => handler[h].status = 400

\* C4: every step keeps the entries the store has, and a submission that
\* ends with 200 adds exactly the entry of its identifier; nothing else
\* changes the store.
C4_AppendOnly ==
    [][/\ \A id \in DOMAIN receiptStore :
            id \in DOMAIN receiptStore' /\ receiptStore'[id] = receiptStore[id]
       /\ \A h \in Requests :
            (handler[h].pc = "writing" /\ handler'[h].pc = "done")
                => /\ handler[h].id \notin DOMAIN receiptStore
                   /\ DOMAIN receiptStore' = DOMAIN receiptStore \cup {handler[h].id}
       /\ (\A h \in Requests : ~(handler[h].pc = "writing" /\ handler'[h].pc = "done"))
                => receiptStore' = receiptStore]_vars

\* C5: a retrieval answers 404 only for an identifier that no submission had
\* returned when it started, and answers with points only for an identifier
\* that was issued.
C5_UnknownIdentifier ==
    \A h \in Retrievals :
        Done(h) => /\ handler[h].status \in {200, 404}
                   /\ handler[h].status = 404 => handler[h].id \notin handler[h].known
                   /\ handler[h].status = 200 => handler[h].id \in generated

\* C6: the identifiers returned are pairwise distinct, and every stored record
\* is stored under the identifier in its own ID field.
C6_UniqueIdentifiers ==
    /\ \A g \in Submissions, h \in Submissions :
            (g # h /\ handler[g].status = 200 /\ handler[h].status = 200)
                => handler[g].id # handler[h].id
    /\ \A id \in DOMAIN receiptStore : receiptStore[id].ID = id

\* C7: the receipt whose total, first price, date and time do not parse is
\* accepted, and the points stored for it are those of the rules that do not
\* need the fields that failed: the retailer, the pairs, and the second item.
C7_UnparseableRecovered ==
    \A h \in Submissions :
        (Done(h) /\ handler[h].receipt = Unparseable)
            => /\ handler[h].status = 200
               /\ handler[h].id \in DOMAIN receiptStore
               /\ receiptStore[handler[h].id].Points =
                      retailerPoints(Unparseable.Retailer) + pairPoints(Unparseable.Items)
                      + descriptionPoints(Unparseable.Items[2])

AllFieldsParse(r) ==
    /\ ~ParseFloat(r.Total).err
    /\ \A i \in 1..Len(r.Items) : ~ParseFloat(r.Items[i].Price).err
    /\ ~ParseDate(r.PurchaseDate).err
    /\ ~ParseClock(r.PurchaseTime).err

\* The price is a decimal greater than -5.
AboveMinusFive(price) ==
    LET x == ParseFloat(price) IN ~x.err /\ x.mant > -5 * Pow10(x.scale)

C9_FixtureScores31 ==
    (pc = "return" /\ receipt = Fixture) => totalPoints = 31

\* C9 as amended: the fixture receipt scores 20 points (6 for the retailer,
\* 5 for the pair of items, 3 for "Emils Cheese Pizza", 6 for the odd day).
C9_FixtureScores20 ==
    (pc = "return" /\ receipt = Fixture) => totalPoints = 20

C9_Witness == pc = "return" /\ receipt = Fixture /\ totalPoints = 6 + 5 + 3 + 6

====
